---------------------------- MODULE Spec2Model ----------------------------
(* logos_iterator: Lexer and SpannedLexer, two iterators over a logos     *)
(* token cursor, and Index<Span> for str and String.                       *)
(*                                                                         *)
(* A source is a sequence of bytes, each byte a one-element string name;   *)
(* the only multi-byte character is U+00E9, encoded as <<"C3", "A9">>.     *)
(* Offsets are 0-based byte offsets, as in Rust; sequences are 1-based.    *)
EXTENDS Integers, Sequences, FiniteSets, TLC

(* ------------------------------ bounds ------------------------------- *)

\* longest enumerated source, in characters
MaxLen == 3
\* how many times an iterator is called again after it has returned None
MaxNone == 2
\* how many items an iterator may yield before it is no longer called
MaxYield == 14
\* longest enumerated string for Index<Span>, in characters
MaxIdxLen == 2

(* ------------------------- the token grammar ------------------------- *)

\* T::END of the documented Token enum: the #[end] variant
END == "Eof"
\* T::ERROR of the documented Token enum: the #[error] variant
ERROR == "Unknown"

Tokens == {"Eof", "Unknown", "Digit", "Plus", "Minus", "Equal", "End", "NewLine"}

Digits == {"0", "1", "2", "3", "4", "5", "6", "7", "8", "9"}

\* the characters sources are enumerated over
Alphabet == {"1", "+", " ", "\r", "\n", "x", "e'"}

\* UTF-8 encoding of one character
Utf8(c) == IF c = "e'" THEN <<"C3", "A9">> ELSE <<c>>

RECURSIVE Encode(_)
Encode(cs) == IF cs = <<>> THEN <<>> ELSE Utf8(Head(cs)) \o Encode(Tail(cs))

CharSeqs(n) == UNION {[1..k -> Alphabet] : k \in 0..n}

\* let input = "1 + 1 = 2;\n2 + 2 = 4;";
DocInput ==
    <<"1", " ", "+", " ", "1", " ", "=", " ", "2", ";", "\n",
      "2", " ", "+", " ", "2", " ", "=", " ", "4", ";">>

\* let expected = vec![...]
DocExpected ==
    <<"Digit", "Plus", "Digit", "Equal", "Digit", "End", "NewLine",
      "Digit", "Plus", "Digit", "Equal", "Digit", "End">>

\* let s = "this is a test";
TestStr ==
    <<"t", "h", "i", "s", " ", "i", "s", " ", "a", " ", "t", "e", "s", "t">>

Sources == {Encode(cs) : cs \in CharSeqs(MaxLen)} \cup {DocInput}

IdxSources == {Encode(cs) : cs \in CharSeqs(MaxIdxLen)} \cup {TestStr}

(* ------------------ the token cursor (logos::Lexer) ------------------ *)
(* The cursor belongs to the logos crate. It is modelled for the Token     *)
(* grammar of the crate documentation: spaces between matches are skipped, *)
(* a character that starts no pattern is one ERROR match, and at the end   *)
(* of the source the match is END with the empty range len..len, which     *)
(* advance() reproduces.                                                   *)

\* number of bytes of the character whose first byte is b
CharWidth(b) == IF b = "C3" THEN 2 ELSE 1

\* the engine skips spaces between matches
RECURSIVE SkipWs(_, _)
SkipWs(s, pos) ==
    IF pos < Len(s) /\ s[pos + 1] = " " THEN SkipWs(s, pos + 1) ELSE pos

\* one match of the documented grammar, scanning from byte offset pos
Match(s, pos) ==
    LET p == SkipWs(s, pos)
        b == s[p + 1]
        tok(t, n) == [token |-> t, start |-> p, end |-> p + n]
    IN  IF p >= Len(s) THEN [token |-> END, start |-> Len(s), end |-> Len(s)]
        ELSE IF b \in Digits THEN tok("Digit", 1)
        ELSE IF b = "+" THEN tok("Plus", 1)
        ELSE IF b = "-" THEN tok("Minus", 1)
        ELSE IF b = "=" THEN tok("Equal", 1)
        ELSE IF b = ";" THEN tok("End", 1)
        ELSE IF b = "\n" THEN tok("NewLine", 1)
        ELSE IF b = "\r" /\ p + 1 < Len(s) /\ s[p + 2] = "\n" THEN tok("NewLine", 2)
        ELSE tok(ERROR, CharWidth(b))

\* T::lexer(s): the cursor is constructed on the first match
lexer(s) == Match(s, 0)

\* self.0.advance(): the cursor moves to the next match
advance(c, s) == Match(s, c.end)

\* self.0.range()
range(c) == [start |-> c.start, end |-> c.end]

(* --------------------------- the iterators --------------------------- *)

None == [some |-> FALSE]
Some(v) == [some |-> TRUE, val |-> v]

\* WithSpan::new(item, span)
WithSpan(item, span) == [item |-> item, span |-> span]

\* Lexer::next without the T::END test: the sentinel is yielded too
LexerStepNoCheck(c, s) ==
    [ret |-> Some(c.token), cursor |-> advance(c, s), advances |-> 1]

\* Lexer::next that also stops on T::ERROR, after consuming it
LexerStepErrorEnds(c, s) ==
    IF c.token = END
    THEN [ret |-> None, cursor |-> c, advances |-> 0]
    ELSE IF c.token = ERROR
    THEN [ret |-> None, cursor |-> advance(c, s), advances |-> 1]
    ELSE [ret |-> Some(c.token), cursor |-> advance(c, s), advances |-> 1]

\* Lexer::next that never calls advance()
LexerStepNoAdvance(c, s) ==
    IF c.token = END
    THEN [ret |-> None, cursor |-> c, advances |-> 0]
    ELSE [ret |-> Some(c.token), cursor |-> c, advances |-> 0]

\* Lexer::next that calls advance() twice
LexerStepTwice(c, s) ==
    IF c.token = END
    THEN [ret |-> None, cursor |-> c, advances |-> 0]
    ELSE [ret |-> Some(c.token), cursor |-> advance(advance(c, s), s),
          advances |-> 2]

\* Lexer::next that reads the token after advance() instead of before
LexerStepLate(c, s) ==
    IF c.token = END
    THEN [ret |-> None, cursor |-> c, advances |-> 0]
    ELSE LET n == advance(c, s)
         IN  [ret |-> Some(n.token), cursor |-> n, advances |-> 1]

\* Lexer::next that calls advance() before returning None on the sentinel
LexerStepAdvanceAtEnd(c, s) ==
    IF c.token = END
    THEN [ret |-> None, cursor |-> advance(c, s), advances |-> 1]
    ELSE [ret |-> Some(c.token), cursor |-> advance(c, s), advances |-> 1]

\* Lexer::next on cursor c: the value returned, the cursor afterwards, and
\* the number of advance() calls made
LexerStep(c, s) ==
    IF c.token = END
    THEN [ret |-> None, cursor |-> c, advances |-> 0]
    ELSE LET token == c.token
         IN  [ret |-> Some(token), cursor |-> advance(c, s), advances |-> 1]

\* SpannedLexer::next that reads the token after advance() instead of before
SpannedStepLate(c, s) ==
    IF c.token = END
    THEN [ret |-> None, cursor |-> c, advances |-> 0]
    ELSE LET r == range(c)
             span == [start |-> r.start, end |-> r.end]
             n == advance(c, s)
         IN  [ret |-> Some(WithSpan(n.token, span)),
              cursor |-> n, advances |-> 1]

\* SpannedLexer::next that reads range() after advance() instead of before
SpannedStepSpanLate(c, s) ==
    IF c.token = END
    THEN [ret |-> None, cursor |-> c, advances |-> 0]
    ELSE LET n == advance(c, s)
             r == range(n)
             span == [start |-> r.start, end |-> r.end]
         IN  [ret |-> Some(WithSpan(c.token, span)),
              cursor |-> n, advances |-> 1]

\* SpannedLexer::next that builds the Span with start and end exchanged
SpannedStepSwapped(c, s) ==
    IF c.token = END
    THEN [ret |-> None, cursor |-> c, advances |-> 0]
    ELSE LET r == range(c)
             span == [start |-> r.end, end |-> r.start]
         IN  [ret |-> Some(WithSpan(c.token, span)),
              cursor |-> advance(c, s), advances |-> 1]

\* SpannedLexer::next on cursor c
SpannedStep(c, s) ==
    IF c.token = END
    THEN [ret |-> None, cursor |-> c, advances |-> 0]
    ELSE LET token == c.token
             r == range(c)
             span == [start |-> r.start, end |-> r.end]
         IN  [ret |-> Some(WithSpan(token, span)),
              cursor |-> advance(c, s), advances |-> 1]

(* ---------------------------- Index<Span> ---------------------------- *)

\* str::is_char_boundary
IsCharBoundary(s, i) ==
    i = 0 \/ i = Len(s) \/ (i < Len(s) /\ s[i + 1] # "A9")

Panic == [ok |-> FALSE]

\* str indexed by start..end
RangeIndex(s, start, end) ==
    IF start <= end /\ end <= Len(s)
       /\ IsCharBoundary(s, start) /\ IsCharBoundary(s, end)
    THEN [ok |-> TRUE, val |-> SubSeq(s, start + 1, end)]
    ELSE Panic

\* Index<Span> for str taking the end offset as inclusive
IndexStrInclusive(s, index) == RangeIndex(s, index.start, index.end + 1)

\* impl Index<Span> for str
IndexStr(s, index) == RangeIndex(s, index.start, index.end)

\* Index<Span> for String that first clamps the span to the string
IndexStringClamped(s, index) ==
    LET e == IF index.end > Len(s) THEN Len(s) ELSE index.end
        b == IF index.start > e THEN e ELSE index.start
        lo == IF IsCharBoundary(s, b) THEN b ELSE b - 1
        hi == IF IsCharBoundary(s, e) THEN e ELSE e + 1
    IN  RangeIndex(s, lo, hi)

\* impl Index<Span> for String
IndexString(s, index) == RangeIndex(s, index.start, index.end)

(* ------------------------------- state ------------------------------- *)

VARIABLES
    source,     \* the input both iterators are built over
    lx,         \* Lexer.0: the bare iterator's cursor
    lexHist,    \* every value Lexer::next has returned, in call order
    lexAdv,     \* advance() calls made by Lexer::next
    sx,         \* SpannedLexer.0: the spanned iterator's cursor
    spanHist,   \* every value SpannedLexer::next has returned, in call order
    spanAdv,    \* advance() calls made by SpannedLexer::next
    idxSpan,    \* the Span last used as an index
    strRes,     \* result of &s[span] on the str
    stringRes   \* result of &s[span] on String::from(s)

vars == <<source, lx, lexHist, lexAdv, sx, spanHist, spanAdv,
          idxSpan, strRes, stringRes>>

iterVars == <<lx, lexHist, lexAdv, sx, spanHist, spanAdv>>
idxVars == <<idxSpan, strRes, stringRes>>

NotIndexed == [ok |-> FALSE, called |-> FALSE]

\* the values yielded so far: the Some results of the history
Yielded(hist) ==
    LET somes == SelectSeq(hist, LAMBDA r : r.some)
    IN  [i \in 1..Len(somes) |-> somes[i].val]

\* the number of None results so far
Nones(hist) == Len(SelectSeq(hist, LAMBDA r : ~r.some))

InitOn(srcs) ==
    /\ source \in srcs
    /\ lx = lexer(source)
    /\ lexHist = <<>>
    /\ lexAdv = 0
    /\ sx = lexer(source)
    /\ spanHist = <<>>
    /\ spanAdv = 0
    /\ idxSpan = [start |-> 0, end |-> 0]
    /\ strRes = NotIndexed
    /\ stringRes = NotIndexed

\* Lexer::new(s) and SpannedLexer::new(s) over the same source
Init == InitOn(Sources)

\* Lexer::next that drops the bytes it has consumed from the source buffer
LexerNextDrain ==
    /\ Nones(lexHist) < MaxNone
    /\ Len(Yielded(lexHist)) < MaxYield
    /\ LET r == LexerStep(lx, source)
       IN  /\ lx' = r.cursor
           /\ lexHist' = Append(lexHist, r.ret)
           /\ lexAdv' = lexAdv + r.advances
           /\ source' = SubSeq(source, lx.end + 1, Len(source))
    /\ UNCHANGED <<sx, spanHist, spanAdv, idxVars>>

\* Lexer::next on a cursor that the SpannedLexer over the same source shares
LexerNextShared ==
    /\ Nones(lexHist) < MaxNone
    /\ Len(Yielded(lexHist)) < MaxYield
    /\ LET r == LexerStep(lx, source)
       IN  /\ lx' = r.cursor
           /\ sx' = r.cursor
           /\ lexHist' = Append(lexHist, r.ret)
           /\ lexAdv' = lexAdv + r.advances
    /\ UNCHANGED <<source, spanHist, spanAdv, idxVars>>

\* one call of Lexer::next
LexerNext ==
    /\ Nones(lexHist) < MaxNone
    /\ Len(Yielded(lexHist)) < MaxYield
    /\ LET r == LexerStep(lx, source)
       IN  /\ lx' = r.cursor
           /\ lexHist' = Append(lexHist, r.ret)
           /\ lexAdv' = lexAdv + r.advances
    /\ UNCHANGED <<source, sx, spanHist, spanAdv, idxVars>>

\* one call of SpannedLexer::next
SpannedNext ==
    /\ Nones(spanHist) < MaxNone
    /\ Len(Yielded(spanHist)) < MaxYield
    /\ LET r == SpannedStep(sx, source)
       IN  /\ sx' = r.cursor
           /\ spanHist' = Append(spanHist, r.ret)
           /\ spanAdv' = spanAdv + r.advances
    /\ UNCHANGED <<source, lx, lexHist, lexAdv, idxVars>>

Next == LexerNext \/ SpannedNext

Spec == Init /\ [][Next]_vars

\* the consumer keeps calling next()
FairSpec == Spec /\ WF_vars(LexerNext) /\ WF_vars(SpannedNext)

(* ------------------------ Index<Span> in use ------------------------- *)

\* every Span with offsets up to one past the end of s
Spans(s) == {[start |-> a, end |-> b] : a \in 0..(Len(s) + 1), b \in 0..(Len(s) + 1)}

\* a string and a Span to index it with
InitIndex ==
    /\ source \in IdxSources
    /\ lx = lexer(source)
    /\ lexHist = <<>>
    /\ lexAdv = 0
    /\ sx = lexer(source)
    /\ spanHist = <<>>
    /\ spanAdv = 0
    /\ idxSpan \in Spans(source)
    /\ strRes = NotIndexed
    /\ stringRes = NotIndexed

\* &s[span] with s: &str
StrIndexSpan ==
    /\ strRes = NotIndexed
    /\ strRes' = IndexStr(source, idxSpan)
    /\ UNCHANGED <<source, iterVars, idxSpan, stringRes>>

\* &s[span] with s: String
StringIndexSpan ==
    /\ stringRes = NotIndexed
    /\ stringRes' = IndexString(source, idxSpan)
    /\ UNCHANGED <<source, iterVars, idxSpan, strRes>>

NextIndex == StrIndexSpan \/ StringIndexSpan

SpecIndex == InitIndex /\ [][NextIndex]_vars

(* ------------------------------ claims ------------------------------- *)

Min(a, b) == IF a <= b THEN a ELSE b

LexOut == Yielded(lexHist)
SpanOut == Yielded(spanHist)
LexDone == Nones(lexHist) > 0
SpanDone == Nones(spanHist) > 0

\* C1: the tokens Lexer yields and the .item fields SpannedLexer yields over
\* the same source agree position by position, and once both iterators have
\* returned None the two sequences have the same length.
C1_Equivalence ==
    /\ \A i \in 1..Min(Len(LexOut), Len(SpanOut)) : LexOut[i] = SpanOut[i].item
    /\ (LexDone /\ SpanDone) => Len(LexOut) = Len(SpanOut)

C1_Witness ==
    /\ LexDone /\ SpanDone
    /\ Len(LexOut) >= 3
    /\ \E i, j \in 1..Len(LexOut) : LexOut[i] # LexOut[j]

\* C2: in the history of either iterator, every result after a None is None.
C2_NoneIsFinal ==
    /\ \A i, j \in 1..Len(lexHist) :
          (i < j /\ lexHist[i] = None) => lexHist[j] = None
    /\ \A i, j \in 1..Len(spanHist) :
          (i < j /\ spanHist[i] = None) => spanHist[j] = None

C2_Witness ==
    /\ Nones(lexHist) >= 2 /\ Len(LexOut) >= 1
    /\ Nones(spanHist) >= 2 /\ Len(SpanOut) >= 1

\* C3: T::END is never yielded: no Some of Lexer::next holds it and no .item
\* of SpannedLexer::next equals it.
C3_SentinelExcluded ==
    /\ \A i \in 1..Len(LexOut) : LexOut[i] # END
    /\ \A i \in 1..Len(SpanOut) : SpanOut[i].item # END

C3_Witness ==
    /\ LexDone /\ SpanDone
    /\ Len(LexOut) >= 2 /\ Len(SpanOut) >= 2
    /\ lx.token = END /\ sx.token = END

\* C4: every span SpannedLexer yields satisfies
\* 0 <= start <= end <= length of the source in bytes.
C4_SpanValid ==
    \A i \in 1..Len(SpanOut) :
        /\ 0 <= SpanOut[i].span.start
        /\ SpanOut[i].span.start <= SpanOut[i].span.end
        /\ SpanOut[i].span.end <= Len(source)

C4_Witness ==
    /\ SpanDone
    /\ \E i \in 1..Len(SpanOut) :
          /\ SpanOut[i].span.start > 0
          /\ SpanOut[i].span.end = Len(source)
          /\ SpanOut[i].span.end - SpanOut[i].span.start = 2

\* C5: over an empty source the first next() of either iterator returns None
\* and nothing is ever yielded.
C5_EmptyInput ==
    source = <<>> =>
        /\ lexHist # <<>> => lexHist[1] = None
        /\ spanHist # <<>> => spanHist[1] = None
        /\ LexOut = <<>> /\ SpanOut = <<>>

C5_Witness ==
    /\ source = <<>>
    /\ Len(lexHist) >= 1 /\ Len(spanHist) >= 1

\* the substrings of DocInput that its 13 tokens match
DocLexemes ==
    <<<<"1">>, <<"+">>, <<"1">>, <<"=">>, <<"2">>, <<";">>, <<"\n">>,
      <<"2">>, <<"+">>, <<"2">>, <<"=">>, <<"4">>, <<";">>>>

\* C6: over "1 + 1 = 2;\n2 + 2 = 4;" both iterators yield the 13 tokens of
\* the documented example, in order and nothing else, and slicing the source
\* with the span of the i-th annotated token gives the i-th matched substring.
C6_DocExample ==
    source = DocInput =>
        /\ Len(LexOut) <= Len(DocExpected)
        /\ \A i \in 1..Len(LexOut) : LexOut[i] = DocExpected[i]
        /\ LexDone => Len(LexOut) = Len(DocExpected)
        /\ Len(SpanOut) <= Len(DocExpected)
        /\ \A i \in 1..Len(SpanOut) :
              /\ SpanOut[i].item = DocExpected[i]
              /\ IndexStr(source, SpanOut[i].span) = [ok |-> TRUE, val |-> DocLexemes[i]]
        /\ SpanDone => Len(SpanOut) = Len(DocExpected)

C6_Witness ==
    /\ source = DocInput
    /\ LexDone /\ SpanDone
    /\ Len(LexOut) = 13 /\ Len(SpanOut) = 13
    /\ IndexStr(source, SpanOut[1].span) = [ok |-> TRUE, val |-> <<"1">>]

\* C7: for a Span with 0 <= start <= end <= length and both offsets on
\* character boundaries, indexing the str and indexing the String both
\* succeed with the end - start bytes source[start], ..., source[end - 1],
\* and give the same result; "this is a test"[5..9] is "is a".
C7_IndexSubstring ==
    LET a == idxSpan.start
        b == idxSpan.end
        bytes(r) == /\ r.ok
                    /\ Len(r.val) = b - a
                    /\ \A k \in 1..(b - a) : r.val[k] = source[a + k]
    IN  (a <= b /\ b <= Len(source)
         /\ IsCharBoundary(source, a) /\ IsCharBoundary(source, b)) =>
            /\ strRes # NotIndexed => bytes(strRes)
            /\ stringRes # NotIndexed => bytes(stringRes)
            /\ (strRes # NotIndexed /\ stringRes # NotIndexed) => strRes = stringRes
            /\ (source = TestStr /\ a = 5 /\ b = 9 /\ strRes # NotIndexed) =>
                  strRes.val = <<"i", "s", " ", "a">>

C7_Witness ==
    /\ source = TestStr
    /\ idxSpan = [start |-> 5, end |-> 9]
    /\ strRes # NotIndexed /\ strRes.ok
    /\ stringRes # NotIndexed /\ stringRes.ok

\* the 0-based offsets of s at which a token of the documented grammar starts
TokenStarts(s) ==
    {i - 1 : i \in {j \in 1..Len(s) :
        /\ s[j] # " "
        /\ s[j] # "A9"
        /\ ~(s[j] = "\n" /\ j > 1 /\ s[j - 1] = "\r")}}

\* whether the byte at 0-based offset p of s starts no pattern of the grammar
Unrecognized(s, p) ==
    \/ s[p + 1] \in {"x", "C3"}
    \/ s[p + 1] = "\r" /\ ~(p + 2 <= Len(s) /\ s[p + 2] = "\n")

CountOf(seq, P(_)) == Cardinality({i \in 1..Len(seq) : P(seq[i])})

\* C8: Unknown is yielded like any other token and ends nothing: an iterator
\* that has returned None has yielded one item per token start of the source,
\* as many Unknown items as the source has unrecognized characters, and its
\* cursor rests at the end of the source; every result is None or Some.
C8_UnknownPropagated ==
    LET unknowns == Cardinality({p \in TokenStarts(source) : Unrecognized(source, p)})
    IN  /\ LexDone =>
              /\ Len(LexOut) = Cardinality(TokenStarts(source))
              /\ CountOf(LexOut, LAMBDA t : t = ERROR) = unknowns
              /\ lx.start = Len(source)
        /\ SpanDone =>
              /\ Len(SpanOut) = Cardinality(TokenStarts(source))
              /\ CountOf(SpanOut, LAMBDA w : w.item = ERROR) = unknowns
              /\ sx.start = Len(source)
        /\ \A i \in 1..Len(SpanOut) :
              SpanOut[i].item = ERROR <=> Unrecognized(source, SpanOut[i].span.start)
        /\ \A i \in 1..Len(lexHist) : lexHist[i] = None \/ lexHist[i].val \in Tokens
        /\ \A i \in 1..Len(spanHist) : spanHist[i] = None \/ spanHist[i].val.item \in Tokens

C8_Witness ==
    /\ LexDone /\ SpanDone
    /\ \E i \in 1..(Len(LexOut) - 1) : LexOut[i] = ERROR /\ LexOut[i + 1] # ERROR
    /\ \E i \in 1..(Len(SpanOut) - 1) : SpanOut[i].item = ERROR /\ SpanOut[i + 1].item # ERROR

\* C9: when next() keeps being called, both iterators eventually return None,
\* and neither ever yields more items than the source has bytes.
C9_Finite ==
    /\ <>(LexDone /\ SpanDone)
    /\ [](Len(LexOut) <= Len(source) /\ Len(SpanOut) <= Len(source))

C9_Witness ==
    /\ LexDone /\ SpanDone
    /\ Len(LexOut) = Len(source) /\ Len(SpanOut) = Len(source)
    /\ Len(source) = MaxLen

\* the offset at which the first match at or after offset pos starts: the
\* end of the source when there is none
NextStart(s, pos) ==
    LET later == {p \in TokenStarts(s) : p >= pos}
    IN  IF later = {} THEN Len(s)
        ELSE CHOOSE p \in later : \A q \in later : p <= q

Last(seq) == seq[Len(seq)]

\* C10 as stated: every next() call advances the cursor by one match, so
\* each iterator has made as many advances as it has answered calls.
C10_EveryCallAdvances ==
    /\ lexAdv = Len(lexHist)
    /\ spanAdv = Len(spanHist)

\* C10, amended: a next() call that returns Some makes exactly one advance
\* and leaves the cursor on the first match after the one it yielded; a call
\* that returns None makes no advance and leaves the cursor where it was.
C10_YieldingCallAdvances ==
    [][/\ lexHist' # lexHist =>
            IF Last(lexHist').some
            THEN /\ lexAdv' = lexAdv + 1
                 /\ lx'.start = NextStart(source, lx.end)
                 /\ lx'.start >= lx.end
            ELSE lexAdv' = lexAdv /\ lx' = lx
       /\ spanHist' # spanHist =>
            IF Last(spanHist').some
            THEN /\ spanAdv' = spanAdv + 1
                 /\ sx'.start = NextStart(source, sx.end)
                 /\ sx'.start >= sx.end
            ELSE spanAdv' = spanAdv /\ sx' = sx]_vars

C10_Witness ==
    /\ lexAdv >= 2 /\ Nones(lexHist) >= 1
    /\ spanAdv >= 2 /\ Nones(spanHist) >= 1
    /\ lexAdv < Len(lexHist) /\ spanAdv < Len(spanHist)

\* C11: the token a next() call returns in Some is the token the cursor held
\* when the call began, and the first result on a fresh iterator over a
\* source with a match is the token of the match made at construction.
C11_CaptureBeforeAdvance ==
    /\ [][/\ (lexHist' # lexHist /\ Last(lexHist').some) =>
                Last(lexHist').val = lx.token
          /\ (spanHist' # spanHist /\ Last(spanHist').some) =>
                Last(spanHist').val.item = sx.token]_vars
    /\ []((lexHist # <<>> /\ lexer(source).token # END) =>
            lexHist[1] = Some(lexer(source).token))
    /\ []((spanHist # <<>> /\ lexer(source).token # END) =>
            (spanHist[1].some /\ spanHist[1].val.item = lexer(source).token))

C11_Witness ==
    /\ Len(LexOut) >= 2 /\ Len(SpanOut) >= 2
    /\ LexOut[1] # lx.token /\ LexOut[2] # lx.token
    /\ SpanOut[2].item # sx.token
    /\ LexOut[1] = lexer(source).token

\* C12: the span of every WithSpan that SpannedLexer::next returns is the
\* cursor's range as it was when the call began, the range of the match whose
\* token is the item.
C12_SpanOfSameMatch ==
    [][(spanHist' # spanHist /\ Last(spanHist').some) =>
          /\ Last(spanHist').val.span = [start |-> sx.start, end |-> sx.end]
          /\ Last(spanHist').val.item = sx.token
          /\ Last(spanHist').val.span # [start |-> sx'.start, end |-> sx'.end]]_vars

C12_Witness ==
    /\ Len(SpanOut) >= 2
    /\ SpanOut[2].span.start > SpanOut[1].span.end
    /\ sx.start > SpanOut[2].span.end

Exhausted(c) == c.token = END
Active(c) == c.token # END

\* C13: an iterator is Exhausted when its cursor's token is the sentinel and
\* Active otherwise. A fresh iterator is Exhausted exactly when the source
\* has no match; a next() in Active returns Some, one in Exhausted returns
\* None, and no next() leads from Exhausted back to Active.
C13_TwoStates ==
    /\ []((lexHist = <<>>) => (Exhausted(lx) <=> TokenStarts(source) = {}))
    /\ []((spanHist = <<>>) => (Exhausted(sx) <=> TokenStarts(source) = {}))
    /\ [][/\ Exhausted(lx) => Exhausted(lx')
          /\ Exhausted(sx) => Exhausted(sx')
          /\ lexHist' # lexHist => (Last(lexHist').some <=> Active(lx))
          /\ spanHist' # spanHist => (Last(spanHist').some <=> Active(sx))]_vars

C13_Witness ==
    /\ Exhausted(lx) /\ Exhausted(sx)
    /\ Nones(lexHist) >= 2 /\ Nones(spanHist) >= 2
    /\ Len(LexOut) >= 2 /\ Len(SpanOut) >= 2

\* C14: a next() call of either iterator leaves the source buffer, its
\* contents and its length, as it was, and changes nothing but the calling
\* iterator's cursor and what that call returned.
C14_Frame ==
    [][/\ (lexHist' # lexHist \/ spanHist' # spanHist) =>
            (source' = source /\ Len(source') = Len(source))
       /\ lexHist' # lexHist => UNCHANGED <<sx, spanHist, spanAdv, idxVars>>
       /\ spanHist' # spanHist => UNCHANGED <<lx, lexHist, lexAdv, idxVars>>]_vars

C14_Witness ==
    /\ Len(source) >= 3
    /\ lexAdv >= 2 /\ spanAdv >= 1
    /\ lx # lexer(source) /\ sx # lexer(source) /\ lx # sx

\* the first n results of a Lexer that is the only iterator over s
RECURSIVE LexerAlone(_, _, _)
LexerAlone(c, s, n) ==
    IF n = 0 THEN <<>>
    ELSE LET r == LexerStep(c, s)
         IN  <<r.ret>> \o LexerAlone(r.cursor, s, n - 1)

\* the first n results of a SpannedLexer that is the only iterator over s
RECURSIVE SpannedAlone(_, _, _)
SpannedAlone(c, s, n) ==
    IF n = 0 THEN <<>>
    ELSE LET r == SpannedStep(c, s)
         IN  <<r.ret>> \o SpannedAlone(r.cursor, s, n - 1)

\* C15: the two iterators over one source are independent: under every
\* interleaving of their next() calls each has returned exactly what it
\* returns when run alone for as many calls, and a call of one leaves the
\* other's cursor and results as they were.
C15_Independent ==
    /\ [](lexHist = LexerAlone(lexer(source), source, Len(lexHist)))
    /\ [](spanHist = SpannedAlone(lexer(source), source, Len(spanHist)))
    /\ [][/\ lexHist' # lexHist => (sx' = sx /\ spanHist' = spanHist)
          /\ spanHist' # spanHist => (lx' = lx /\ lexHist' = lexHist)]_vars

C15_Witness ==
    /\ Len(LexOut) >= 3 /\ Len(SpanOut) = 1
    /\ SpanDone = FALSE /\ LexDone
    /\ sx.start < lx.start

\* whether byte offset i of s lies between the two bytes of a character
InsideChar(s, i) == i >= 1 /\ i < Len(s) /\ s[i] = "C3"

\* C17: a Span whose start or end lies inside a multi-byte character, or past
\* the end of the string, is not validated beforehand: indexing the str or
\* the String with it panics; it yields neither a substring nor a value.
C17_BadSpanPanics ==
    LET bad(i) == InsideChar(source, i) \/ i > Len(source)
    IN  (bad(idxSpan.start) \/ bad(idxSpan.end)) =>
            /\ strRes # NotIndexed => strRes = Panic
            /\ stringRes # NotIndexed => stringRes = Panic

C17_Witness ==
    /\ InsideChar(source, idxSpan.end)
    /\ idxSpan.start < idxSpan.end
    /\ strRes = Panic /\ stringRes = Panic

\* C18: a next() call made while the cursor's token is the sentinel returns
\* None, makes no advance() call and leaves the cursor's token and range as
\* they were, so an iterator never makes more advances than the source has
\* matches before its first sentinel.
C18_NoAdvanceAtSentinel ==
    /\ [][/\ (lexHist' # lexHist /\ lx.token = END) =>
                (Last(lexHist') = None /\ lexAdv' = lexAdv /\ lx' = lx)
          /\ (spanHist' # spanHist /\ sx.token = END) =>
                (Last(spanHist') = None /\ spanAdv' = spanAdv /\ sx' = sx)]_vars
    /\ [](lexAdv <= Cardinality(TokenStarts(source)))
    /\ [](spanAdv <= Cardinality(TokenStarts(source)))

C18_Witness ==
    /\ Nones(lexHist) >= 2 /\ Nones(spanHist) >= 2
    /\ lexAdv = Cardinality(TokenStarts(source))
    /\ spanAdv = Cardinality(TokenStarts(source))
    /\ lexAdv >= 1
    /\ lx.start = Len(source) /\ lx.end = Len(source)

\* the engine's matches from cursor c on, up to its first sentinel
RECURSIVE MatchesFrom(_, _)
MatchesFrom(c, s) ==
    IF c.token = END THEN <<>> ELSE <<c>> \o MatchesFrom(advance(c, s), s)

\* C19: no match is skipped or duplicated: each iterator has made as many
\* advances as it has yielded items, its k-th item is the k-th match of the
\* engine, the first being the one made at construction, and once it has
\* returned None it has yielded every match before the first sentinel.
C19_NoSkipNoDuplicate ==
    LET ms == MatchesFrom(lexer(source), source)
    IN  /\ lexAdv = Len(LexOut)
        /\ spanAdv = Len(SpanOut)
        /\ Len(LexOut) <= Len(ms)
        /\ Len(SpanOut) <= Len(ms)
        /\ \A k \in 1..Len(LexOut) : LexOut[k] = ms[k].token
        /\ \A k \in 1..Len(SpanOut) :
              /\ SpanOut[k].item = ms[k].token
              /\ SpanOut[k].span = [start |-> ms[k].start, end |-> ms[k].end]
        /\ \A j, k \in 1..Len(SpanOut) :
              j < k => SpanOut[j].span.end <= SpanOut[k].span.start
        /\ LexDone => Len(LexOut) = Len(ms)
        /\ SpanDone => Len(SpanOut) = Len(ms)

C19_Witness ==
    /\ LexDone /\ SpanDone
    /\ Len(LexOut) = 3 /\ Len(SpanOut) = 3
    /\ LexOut[1] = LexOut[2] /\ LexOut[2] # LexOut[3]
    /\ lexAdv = 3 /\ spanAdv = 3

=============================================================================
